---------------------------- MODULE Spec2Model ----------------------------
(***************************************************************************)
(* A model of the REGoth in-game console (src/src/ui/Console.cpp):         *)
(*   - determineCommand : resolution of a token sequence to a command id,  *)
(*   - autoComplete     : token-by-token completion of a typed line,       *)
(*   - onKeyDown / onTextInput / submitCommand : line editing and history. *)
(*                                                                         *)
(* A std::string is a sequence of one-character strings, a std::vector a   *)
(* sequence.  Command ids and token ids are 0-based as in the code; the    *)
(* element with id i of a sequence s is s[i + 1].                          *)
(***************************************************************************)
EXTENDS Integers, Sequences, FiniteSets, TLC

VARIABLES
    m_Commands2,     \* std::vector<ConsoleCommand>, in registration order
    m_Commands,      \* std::vector<std::string>, the legacy command literals
    m_History,       \* std::vector<std::string>, oldest first
    m_HistoryIndex,  \* int
    m_TypedLine,     \* std::string, the edit buffer
    m_PendingLine,   \* std::string
    m_Output,        \* the lines the latest handler pushed to m_Output, newest first
    nav,             \* history variable: the run of UP/DOWN keys in progress
    pc,              \* position of a direct call: "ready", "returned"
    arg,             \* the arguments of the direct call
    ret,             \* what the latest direct call or submitCommand returned
    prev             \* the argument line and result of the call before it

consoleVars == <<m_Commands, m_History, m_HistoryIndex, m_TypedLine, m_PendingLine,
                 m_Output, nav>>
callVars    == <<pc, arg, ret, prev>>
vars        == <<m_Commands2, consoleVars, callVars>>

-----------------------------------------------------------------------------
(* Bounds of the model.                                                    *)

MaxCmds    == 2   \* commands registered after the constructor's "list"
MaxTokens  == 2   \* tokens of a resolved or completed line
MaxHist    == 2   \* stored history entries
MaxLineLen == 2   \* characters typed into the edit buffer
MaxRegistered == 1  \* registrations on a console that takes keys

-----------------------------------------------------------------------------
(* Characters and strings.                                                 *)

Space == " "
Tab   == "\t"

\* std::isspace on the characters of the model.
isspace(c) == c \in {Space, Tab}

\* Utils::lower: ASCII case folding, on the letters of the model.
LowerChar(c) == IF c = "G" THEN "g" ELSE IF c = "S" THEN "s" ELSE c
lower(s) == [i \in 1..Len(s) |-> LowerChar(s[i])]

\* std::string::substr(0, n)
substr(s, n) == SubSeq(s, 1, IF n < Len(s) THEN n ELSE Len(s))

\* size_t arithmetic wraps; the model keeps 16 bits of it.
SizeModulus == 65536
npos == SizeModulus - 1
SizeSub(a, b) == (a - b) % SizeModulus

\* Whether t occurs in s at the 0-based position p.
OccursAt(s, t, p) == /\ p + Len(t) <= Len(s)
                     /\ \A i \in 1..Len(t) : s[p + i] = t[i]

\* std::string::find: the first position of t in s, npos when there is none.
find(s, t) ==
    LET hits == {p \in 0..(Len(s) - Len(t)) : OccursAt(s, t, p)}
    IN  IF hits = {} THEN npos
        ELSE CHOOSE p \in hits : \A q \in hits : p <= q

\* std::string::find_first_not_of(' ') != npos
HasNonSpace(s) == \E i \in 1..Len(s) : s[i] # Space

\* Utils::commonStartLength: the number of leading characters a and b share.
commonStartLength(a, b) ==
    LET m == IF Len(a) < Len(b) THEN Len(a) ELSE Len(b)
        same == {n \in 0..m : \A i \in 1..n : a[i] = b[i]}
    IN  CHOOSE n \in same : \A k \in same : k <= n

Min(a, b) == IF a < b THEN a ELSE b
Max(a, b) == IF a > b THEN a ELSE b

RECURSIVE Flatten(_)
\* The concatenation of a sequence of sequences.
Flatten(ss) == IF ss = <<>> THEN <<>> ELSE Head(ss) \o Flatten(Tail(ss))

\* Utils::split(s, ' '): the fields between the delimiter, std::getline style;
\* a delimiter that ends the line opens no further field.
RECURSIVE split(_, _)
split(s, delim) ==
    IF s = <<>> THEN <<>>
    ELSE LET cuts == {i \in 1..Len(s) : s[i] = delim}
         IN  IF cuts = {} THEN <<s>>
             ELSE LET c == CHOOSE i \in cuts : \A j \in cuts : i <= j
                  IN  <<SubSeq(s, 1, c - 1)>> \o split(SubSeq(s, c + 1, Len(s)), delim)

\* std::istream_iterator<std::string>: the maximal runs of non-space characters.
RECURSIVE istreamTokens(_)
istreamTokens(s) ==
    IF s = <<>> THEN <<>>
    ELSE IF isspace(s[1]) THEN istreamTokens(Tail(s))
    ELSE LET stops == {i \in 1..Len(s) : isspace(s[i])}
             e == IF stops = {} THEN Len(s) + 1
                  ELSE CHOOSE i \in stops : \A j \in stops : i <= j
         IN  <<SubSeq(s, 1, e - 1)>> \o istreamTokens(SubSeq(s, e, Len(s)))

\* The tokens joined by single spaces.
RECURSIVE Join(_)
Join(ts) == IF ts = <<>> THEN <<>>
            ELSE IF Len(ts) = 1 THEN ts[1]
            ELSE ts[1] \o <<Space>> \o Join(Tail(ts))

-----------------------------------------------------------------------------
(* Words of the registered commands and of the typed lines.                *)

w_list    == <<"l", "i", "s", "t">>
w_save    == <<"s", "a", "v", "e">>
w_saveall == <<"s", "a", "v", "e", "a", "l", "l">>
w_load    == <<"l", "o", "a", "d">>
w_ld      == <<"l", "d">>
w_lost    == <<"l", "o", "s", "t">>
w_game    == <<"g", "a", "m", "e">>
w_Game    == <<"G", "a", "m", "e">>
w_level   == <<"l", "e", "v", "e", "l">>
w_Save    == <<"S", "a", "v", "e">>

\* A ConsoleCommand: its generators (each an ordered list of alias groups, as
\* the generator returns it when called) and its number of fixed tokens.
Command(generators, numFixTokens) ==
    [generators |-> generators, numFixTokens |-> numFixTokens]

\* The command the constructor registers: {{"list"}}, one fixed token.
cmdList    == Command(<< << <<w_list>> >> >>, 1)

cmdSave    == Command(<< << <<w_save>> >> >>, 1)
cmdSaveAll == Command(<< << <<w_saveall>> >> >>, 1)
cmdLoad    == Command(<< << <<w_load, w_ld>> >>, << <<w_game>>, <<w_level>> >> >>, 1)
cmdLost    == Command(<< << <<w_lost>> >>, << <<w_Game>> >> >>, 2)
cmdSaveGame == Command(<< << <<w_Save>> >>, << <<w_game>> >> >>, 2)
\* registerCommand2 validates nothing: no fixed token, and more fixed tokens
\* than generators.
cmdZero    == Command(<< << <<w_level>> >> >>, 0)
cmdBad     == Command(<< << <<w_save>> >> >>, 2)

CommandPool == {cmdSave, cmdSaveAll, cmdLoad, cmdLost, cmdSaveGame, cmdZero, cmdBad}

SeqsUpTo(S, n) == UNION {[1..k -> S] : k \in 0..n}

\* The registries: the constructor's command, then up to MaxCmds registrations.
Registries == {<<cmdList>> \o r : r \in SeqsUpTo(CommandPool, MaxCmds)}

TokenPool == {w_save, w_load, w_ld, w_list, w_game, w_Game, w_level,
              <<"s", "a">>, <<"l", "o">>, <<"l">>, <<"t">>, <<"g">>, <<"x">>}

TokenSeqs == SeqsUpTo(TokenPool, MaxTokens)

-----------------------------------------------------------------------------
(* Console::determineCommand                                               *)

\* What a call produced: a value, or an exception that left it.
Returned(v) == [kind |-> "return", value |-> v]
Thrown(e)   == [kind |-> "throw", value |-> e]

NotFound == Returned(-1)

\* Utils::findNameInGroups: the first group holding an alias equal to name,
\* the empty group when there is none.
findNameInGroups(groups, name) ==
    LET holds == {g \in 1..Len(groups) : \E a \in 1..Len(groups[g]) : groups[g][a] = name}
    IN  IF holds = {} THEN <<>>
        ELSE groups[CHOOSE g \in holds : \A h \in holds : g <= h]

\* if (command.numFixTokens > tokens.size()) continue;
TooFewTokens_Geq(command, tokens) == command.numFixTokens >= Len(tokens)
TooFewTokens(command, tokens) == command.numFixTokens > Len(tokens)

\* command.generators.at(tokenID) throws std::out_of_range for some fixed token.
GeneratorMissing(command) == command.numFixTokens > Len(command.generators)

\* allStagesMatched after the loop over the fixed tokens.
allStagesMatched(command, tokens) ==
    \A tokenID \in 0..(command.numFixTokens - 1) :
        findNameInGroups(command.generators[tokenID + 1], tokens[tokenID + 1]) # <<>>

RECURSIVE determineFrom(_, _, _)
determineFrom(commands, tokens, commID) ==
    IF commID >= Len(commands) THEN NotFound
    ELSE LET command == commands[commID + 1]
         IN  IF TooFewTokens(command, tokens)
                 THEN determineFrom(commands, tokens, commID + 1)
             ELSE IF GeneratorMissing(command) THEN Thrown("out_of_range")
             ELSE IF allStagesMatched(command, tokens) THEN Returned(commID)
             ELSE determineFrom(commands, tokens, commID + 1)

determineCommand(commands, tokens) == determineFrom(commands, tokens, 0)

-----------------------------------------------------------------------------
(* Direct calls of determineCommand on every registry and token sequence.  *)

NoCall == [kind |-> "none", value |-> 0]

ConsoleIdle ==
    /\ m_Commands = <<>>
    /\ m_History = <<>>
    /\ m_HistoryIndex = 0
    /\ m_TypedLine = <<>>
    /\ m_PendingLine = <<>>
    /\ m_Output = <<>>
    /\ nav = NoCall

InitResolve ==
    /\ m_Commands2 \in Registries
    /\ ConsoleIdle
    /\ pc = "ready"
    /\ arg \in {[tokens |-> t] : t \in TokenSeqs}
    /\ ret = NoCall
    /\ prev = NoCall

CallDetermineCommand ==
    /\ pc = "ready"
    /\ ret' = determineCommand(m_Commands2, arg.tokens)
    /\ pc' = "returned"
    /\ UNCHANGED <<m_Commands2, consoleVars, arg, prev>>

NextResolve == CallDetermineCommand

SpecResolve == InitResolve /\ [][NextResolve]_vars

-----------------------------------------------------------------------------
(* Resolution: the claims about determineCommand.                          *)

\* The fixed tokens of the command all exist and each equals some alias of
\* some group its generator returns at that position.
FixedTokensMatch(command, tokens) ==
    /\ command.numFixTokens <= Len(tokens)
    /\ \A i \in 0..(command.numFixTokens - 1) :
          /\ i < Len(command.generators)
          /\ \E g \in 1..Len(command.generators[i + 1]) :
                \E a \in 1..Len(command.generators[i + 1][g]) :
                    command.generators[i + 1][g][a] = tokens[i + 1]

MatchingIds(commands, tokens) ==
    {c \in 0..(Len(commands) - 1) : FixedTokensMatch(commands[c + 1], tokens)}

ZeroFixIds(commands) ==
    {c \in 0..(Len(commands) - 1) : commands[c + 1].numFixTokens = 0}

Least(S) == CHOOSE x \in S : \A y \in S : x <= y

\* C1: whenever some registered command's fixed tokens all match the token
\* sequence, determineCommand returns the id of the first such command in
\* registration order.
C1_FirstMatchReturned ==
    pc = "returned" =>
        LET ids == MatchingIds(m_Commands2, arg.tokens)
        IN  (ids # {}) => ret = Returned(Least(ids))

\* C2 as stated: on the empty token sequence, and on a sequence shorter than
\* every command's number of fixed tokens, determineCommand returns NotFound,
\* whatever is registered.
C2_EmptyOrShortIsNotFound ==
    (/\ pc = "returned"
     /\ \/ arg.tokens = <<>>
        \/ \A c \in 1..Len(m_Commands2) : Len(arg.tokens) < m_Commands2[c].numFixTokens)
        => ret = NotFound

\* C2 amended: a sequence shorter than every command's number of fixed tokens
\* resolves to NotFound; the empty sequence resolves to NotFound unless a
\* command with no fixed token is registered, and then to the first such command.
C2_ShortIsNotFoundEmptyHitsZeroFix ==
    pc = "returned" =>
        /\ (\A c \in 1..Len(m_Commands2) : Len(arg.tokens) < m_Commands2[c].numFixTokens)
               => ret = NotFound
        /\ (arg.tokens = <<>>) =>
               ret = IF ZeroFixIds(m_Commands2) = {} THEN NotFound
                     ELSE Returned(Least(ZeroFixIds(m_Commands2)))

\* The empty sequence was resolved in a registry holding a command without
\* fixed tokens, and in one holding none.
C2_Witness ==
    /\ pc = "returned"
    /\ arg.tokens = <<>>
    /\ ZeroFixIds(m_Commands2) # {}
    /\ ret.kind = "return"
    /\ ret.value = Least(ZeroFixIds(m_Commands2))

-----------------------------------------------------------------------------
(* Console::autoComplete                                                   *)

MatchInfo(pos, notMatchingCharCount, commandID, groupID, candidate, candidateLowered) ==
    [pos |-> pos, notMatchingCharCount |-> notMatchingCharCount,
     commandID |-> commandID, groupID |-> groupID,
     candidate |-> candidate, candidateLowered |-> candidateLowered]

\* MatchInfo::compare
compare(a, b) ==
    IF a.pos # b.pos THEN a.pos < b.pos
    ELSE a.notMatchingCharCount < b.notMatchingCharCount

\* The MatchInfo of every alias of a group, in the group's order.
groupInfos(aliasGroup, token, cmdID, groupID) ==
    [k \in 1..Len(aliasGroup) |->
        LET candidate == aliasGroup[k]
            candidateLowered == lower(candidate)
        IN  MatchInfo(find(candidateLowered, token),
                      SizeSub(Len(candidateLowered), Len(token)),
                      cmdID, groupID, candidate, candidateLowered)]

\* std::sort(groupInfos, compare) then groupInfos.at(0): a least element; of
\* several equivalent ones the first (the insertion sort std::sort runs on
\* ranges this short keeps their order).
bestMatch_First(infos) == infos[1]
bestMatch(infos) ==
    infos[CHOOSE i \in 1..Len(infos) :
            /\ \A j \in 1..Len(infos) : ~compare(infos[j], infos[i])
            /\ \A j \in 1..(i - 1) : compare(infos[i], infos[j])]

\* std::size_t cmdEnd = limitToFixed ? command.numFixTokens : generators.size();
cmdEnd(command, limitToFixed) ==
    IF limitToFixed THEN command.numFixTokens ELSE Len(command.generators)

\* if (commandIsAlive[cmdID] && tokenID < cmdEnd)
IsEvaluated(commands, alive, tokenID, limitToFixed, cmdID) ==
    alive[cmdID + 1] /\ tokenID < cmdEnd(commands[cmdID + 1], limitToFixed)

\* generators[tokenID] is unchecked: past the end of the vector the read is
\* undefined.  junk is what the read then yields: a crash, or some groups.
ReadsPastEnd(command, tokenID) == tokenID >= Len(command.generators)

GeneratorAt(command, tokenID, junk) ==
    IF ReadsPastEnd(command, tokenID) THEN junk.groups
    ELSE command.generators[tokenID + 1]

\* The best MatchInfo of every non-empty group of one command, in group order.
commandInfos(commands, alive, token, tokenID, limitToFixed, junk, cmdID) ==
    IF ~IsEvaluated(commands, alive, tokenID, limitToFixed, cmdID) THEN <<>>
    ELSE LET groups == GeneratorAt(commands[cmdID + 1], tokenID, junk)
         IN  Flatten([g \in 1..Len(groups) |->
                 IF groups[g] = <<>> THEN <<>>
                 ELSE <<bestMatch(groupInfos(groups[g], token, cmdID, g - 1))>>])

\* The best MatchInfo of every group looked at for this token, in command
\* then group order.
allInfos(commands, alive, token, tokenID, limitToFixed, junk) ==
    Flatten([c \in 1..Len(commands) |->
        commandInfos(commands, alive, token, tokenID, limitToFixed, junk, c - 1)])

IsStartsWith(info) == info.pos = 0
IsInMiddle(info) == info.pos # 0 /\ info.pos # npos

\* for (auto& matchInfos : {matchInfosStartsWith, matchInfosInMiddle})
\*     { if (matchInfos.empty()) continue; ...; break; }
selectBucket_Merged(startsWith, inMiddle) == startsWith \o inMiddle
selectBucket(startsWith, inMiddle) ==
    IF startsWith # <<>> THEN startsWith ELSE inMiddle

\* commonLength over the selected bucket.
commonLengthOf_ReferenceOnly(bucket) == Len(bucket[1].candidateLowered)
commonLengthOf(bucket) ==
    LET reference == bucket[1].candidateLowered
        lens == {Len(reference)} \cup
                {commonStartLength(reference, bucket[i].candidateLowered) : i \in 1..Len(bucket)}
    IN  CHOOSE n \in lens : \A k \in lens : n <= k

\* longestCandidateLen over the selected bucket.
longestCandidateLenOf(bucket) ==
    LET lens == {Len(bucket[i].candidateLowered) : i \in 1..Len(bucket)}
    IN  CHOOSE n \in lens : \A k \in lens : k <= n

\* commandIsAlive after the token: a command that was looked at lives on only
\* through an entry of the selected bucket; the others keep their flag.
aliveAfter_KeepsAll(commands, alive, tokenID, limitToFixed, bucket) == alive
aliveAfter(commands, alive, tokenID, limitToFixed, bucket) ==
    [c \in 1..Len(commands) |->
        IF IsEvaluated(commands, alive, tokenID, limitToFixed, c - 1)
            THEN \E i \in 1..Len(bucket) : bucket[i].commandID = c - 1
        ELSE alive[c]]

\* A bucket as the rewriting loop of line 352 reads it: std::sort of line 379
\* reorders the bucket of this pass only after that loop, and the next pass
\* starts from fresh buckets.
bucketAtRewrite_Sorted(matchInfos, showSuggestions) ==
    IF showSuggestions THEN SortSeq(matchInfos, compare) ELSE matchInfos
bucketAtRewrite(matchInfos, showSuggestions) == matchInfos

\* The suggestions logged for one bucket: the groups of its entries, sorted.
suggestionLines(commands, tokenID, junk, bucket) ==
    LET sorted == SortSeq(bucket, compare)
    IN  [i \in 1..Len(sorted) |->
            GeneratorAt(commands[sorted[i].commandID + 1], tokenID, junk)[sorted[i].groupID + 1]]

\* One pass of the loop over tokenID: what it leaves of the token, of its
\* exhausted flag and of commandIsAlive.
tokenStep(commands, alive, typed, tokenID, limitToFixed, showSuggestions, junk) ==
    LET token      == lower(typed)
        infos      == allInfos(commands, alive, token, tokenID, limitToFixed, junk)
        startsWith == SelectSeq(infos, IsStartsWith)
        inMiddle   == SelectSeq(infos, IsInMiddle)
        bucket     == selectBucket(bucketAtRewrite(startsWith, showSuggestions),
                                   bucketAtRewrite(inMiddle, showSuggestions))
        common     == IF bucket = <<>> THEN 0 ELSE commonLengthOf(bucket)
        tokenNew   == IF common # 0 THEN substr(bucket[1].candidate, common) ELSE typed
    IN  [typed      |-> typed,
         startsWith |-> startsWith,
         inMiddle   |-> inMiddle,
         bucket     |-> bucket,
         aliveBefore |-> alive,
         alive      |-> aliveAfter(commands, alive, tokenID, limitToFixed, bucket),
         token      |-> tokenNew,
         exhausted  |-> common # 0 /\ longestCandidateLenOf(bucket) = Len(tokenNew),
         log        |-> IF showSuggestions
                            THEN suggestionLines(commands, tokenID, junk, startsWith)
                                 \o suggestionLines(commands, tokenID, junk, inMiddle)
                        ELSE <<>>]

\* Whether this pass reads a generator past the end of some command's vector.
stepReadsPastEnd(commands, alive, tokenID, limitToFixed) ==
    \E c \in 0..(Len(commands) - 1) :
        /\ IsEvaluated(commands, alive, tokenID, limitToFixed, c)
        /\ ReadsPastEnd(commands[c + 1], tokenID)

RECURSIVE tokenLoop(_, _, _, _, _, _, _)
\* The passes for tokenID, tokenID + 1, ...; the loop ends early, with
\* crashed set in its last step, where an undefined read crashes.
tokenLoop(commands, alive, tokens, tokenID, limitToFixed, showSuggestions, junk) ==
    IF tokenID >= Len(tokens) THEN <<>>
    ELSE IF stepReadsPastEnd(commands, alive, tokenID, limitToFixed) /\ junk.crash
        THEN << [crashed |-> TRUE] >>
    ELSE LET step == tokenStep(commands, alive, tokens[tokenID + 1], tokenID,
                               limitToFixed, showSuggestions, junk)
         IN  <<step @@ [crashed |-> FALSE]>>
             \o tokenLoop(commands, step.alive, tokens, tokenID + 1,
                          limitToFixed, showSuggestions, junk)

\* if (it != newTokens.end() - 1 || isspace(input.back()) || noLongerMatch)
spaceAfter_IgnoresInput(steps, i, input) ==
    i # Len(steps) \/ steps[i].exhausted
spaceAfter(steps, i, input) ==
    i # Len(steps) \/ isspace(input[Len(input)]) \/ steps[i].exhausted

\* tokenConCat
reassemble(steps, input) ==
    Flatten([i \in 1..Len(steps) |->
        steps[i].token \o (IF spaceAfter(steps, i, input) THEN <<Space>> ELSE <<>>)])

\* autoComplete(input, limitToFixed, showSuggestions, overwriteInput): the line
\* it leaves in input and the passes of its token loop.
autoComplete(commands, input, limitToFixed, showSuggestions, overwriteInput, junk) ==
    LET tokens == istreamTokens(input)
        steps  == tokenLoop(commands, [c \in 1..Len(commands) |-> TRUE], tokens, 0,
                            limitToFixed, showSuggestions, junk)
        crashed == steps # <<>> /\ steps[Len(steps)].crashed
    IN  IF tokens = <<>> THEN [kind |-> "return", input |-> input, steps |-> <<>>]
        ELSE IF crashed THEN [kind |-> "crash", input |-> input, steps |-> steps]
        ELSE [kind |-> "return",
              input |-> IF overwriteInput THEN reassemble(steps, input) ELSE input,
              steps |-> steps]

-----------------------------------------------------------------------------
(* Direct calls of autoComplete, twice in a row on the same line variable, *)
(* on every registry, typed line and flag combination.                     *)

TypedPool == {<<"s", "a">>, <<"l", "o">>, <<"l">>, <<"t">>, <<"s", "t">>,
              <<"g">>, <<"x">>}

\* A typed line: its tokens, written tightly, with a space after the last
\* token, or with blanks before, between and after them.
Tight(ts)    == Join(ts)
Trailing(ts) == Join(ts) \o <<Space>>
Loose(ts)    == Flatten([i \in 1..Len(ts) |-> <<Space>> \o ts[i] \o <<Space>>]) \o <<Tab>>

TypedLines ==
    UNION {{Tight(ts), Trailing(ts), Loose(ts)} : ts \in SeqsUpTo(TypedPool, MaxTokens)}

\* (limitToFixed, showSuggestions, overwriteInput): the call of the TAB key,
\* the call submitCommand keeps commented out, and variations of each flag.
FlagPool == {<<FALSE, TRUE, TRUE>>, <<TRUE, FALSE, TRUE>>,
             <<FALSE, FALSE, TRUE>>, <<TRUE, TRUE, FALSE>>}

\* What an undefined read of a generator may yield: the call dies (a crash,
\* std::bad_function_call), or it goes on with some groups.
JunkReads ==
    {[crash |-> TRUE, groups |-> <<>>]} \cup
    {[crash |-> FALSE, groups |-> g] : g \in {<<>>, << <<w_game>>, <<w_level>> >>}}

\* The junk a call can meet: only limitToFixed lets tokenID pass generators.size().
JunkFor(commands, limitToFixed) ==
    IF limitToFixed /\ \E c \in 1..Len(commands) : GeneratorMissing(commands[c])
        THEN JunkReads
    ELSE {[crash |-> TRUE, groups |-> <<>>]}

InitComplete ==
    /\ m_Commands2 \in Registries
    /\ ConsoleIdle
    /\ pc = "ready"
    /\ arg \in {[input |-> l, limitToFixed |-> f[1], showSuggestions |-> f[2],
                 overwriteInput |-> f[3]] : l \in TypedLines, f \in FlagPool}
    /\ ret = NoCall
    /\ prev = NoCall

CallAutoComplete ==
    /\ pc \in {"ready", "returned"}
    /\ ret.kind # "crash"
    /\ \E junk \in JunkFor(m_Commands2, arg.limitToFixed) :
          LET r == autoComplete(m_Commands2, arg.input, arg.limitToFixed,
                                arg.showSuggestions, arg.overwriteInput, junk)
          IN  /\ ret' = r
              /\ arg' = [arg EXCEPT !.input = r.input]
              /\ prev' = [input |-> arg.input, ret |-> ret]
    /\ pc' = IF pc = "ready" THEN "returned" ELSE "again"
    /\ UNCHANGED <<m_Commands2, consoleVars>>

NextComplete == CallAutoComplete

SpecComplete == InitComplete /\ [][NextComplete]_vars

-----------------------------------------------------------------------------
(* Completion: the claims about autoComplete.                              *)

\* The passes of the latest call's token loop that ran to their end.
DoneSteps == IF ret.kind \in {"return", "crash"}
                 THEN {i \in 1..Len(ret.steps) : ~ret.steps[i].crashed}
             ELSE {}

IsPrefix(p, s) == Len(p) <= Len(s) /\ \A i \in 1..Len(p) : s[i] = p[i]

\* C3: a rewritten token is never shorter than the typed token it replaces,
\* whenever a candidate matched the typed token (as a prefix or in the middle).
C3_NeverShortens ==
    (ret.kind = "return" /\ arg.overwriteInput) =>
        \A i \in DoneSteps :
            (ret.steps[i].startsWith # <<>> \/ ret.steps[i].inMiddle # <<>>)
                => Len(ret.steps[i].token) >= Len(ret.steps[i].typed)

\* Every registered command has a generator for each of its fixed tokens, so
\* that no call reads past the end of a generator vector.
WellFormed == \A c \in 1..Len(m_Commands2) : ~GeneratorMissing(m_Commands2[c])

\* C4: when a rewriting call marked some token exhausted, the same call on the
\* line it produced leaves that line as it is (stated for the registries
\* on which every read is defined).
C4_IdempotentOnceExhausted ==
    (/\ pc = "again"
     /\ WellFormed
     /\ arg.overwriteInput
     /\ prev.ret.kind = "return"
     /\ \E i \in 1..Len(prev.ret.steps) : prev.ret.steps[i].exhausted)
        => (ret.kind = "return" /\ arg.input = prev.input)

\* The command has a generator at the position, and its group g there has an
\* alias that starts with the typed token, case-insensitively.
GroupStartsWith(command, tokenID, g, typed) ==
    \E a \in 1..Len(command.generators[tokenID + 1][g]) :
        IsPrefix(lower(typed), lower(command.generators[tokenID + 1][g][a]))

CommandStartsWith(command, tokenID, typed) ==
    /\ tokenID < Len(command.generators)
    /\ \E g \in 1..Len(command.generators[tokenID + 1]) :
          GroupStartsWith(command, tokenID, g, typed)

\* The commands pass i of the latest call looked at.
LookedAt(i) ==
    {c \in 0..(Len(m_Commands2) - 1) :
        IsEvaluated(m_Commands2, ret.steps[i].aliveBefore, i - 1, arg.limitToFixed, c)}

\* Pass i met a prefix candidate: a command it looked at has, at this
\* position, an alias that starts with the typed token.
PrefixCandidateAt(i) ==
    \E c \in LookedAt(i) : CommandStartsWith(m_Commands2[c + 1], i - 1, ret.steps[i].typed)

\* The first n characters are shared, up to case, by the candidates of all entries.
SharedBy(entries, n) ==
    \A e \in 1..Len(entries) :
        /\ n <= Len(entries[e].candidate)
        /\ \A k \in 1..n : LowerChar(entries[e].candidate[k]) = LowerChar(entries[1].candidate[k])

\* C5: at a position where some alias of a command still alive starts with the
\* typed token, only prefix matches count: the bucket used holds prefix matches
\* alone, the new token is the longest prefix the prefix candidates share (in
\* the first one's case), exhausted says that no prefix candidate is longer,
\* and a command that was looked at stays alive exactly when one of its groups
\* has an alias starting with the typed token.
C5_PrefixDominates ==
    \A i \in DoneSteps :
        PrefixCandidateAt(i) =>
            LET step == ret.steps[i]
                n == Len(step.token)
            IN  /\ step.startsWith # <<>>
                /\ \A e \in 1..Len(step.bucket) :
                      IsPrefix(lower(step.typed), step.bucket[e].candidateLowered)
                /\ SharedBy(step.startsWith, n)
                /\ ~SharedBy(step.startsWith, n + 1)
                /\ step.token = SubSeq(step.startsWith[1].candidate, 1, n)
                /\ step.exhausted <=>
                      \A e \in 1..Len(step.startsWith) : Len(step.startsWith[e].candidate) = n
                /\ \A c \in LookedAt(i) :
                      (c + 1 <= Len(m_Commands2) /\ (i - 1) < Len(m_Commands2[c + 1].generators))
                          => (step.alive[c + 1] <=>
                                 CommandStartsWith(m_Commands2[c + 1], i - 1, step.typed))

\* A pass met a prefix candidate of one command while another command matched
\* the typed token only in the middle of an alias; that command is dead after.
C5_Witness ==
    \E i \in DoneSteps :
        /\ PrefixCandidateAt(i)
        /\ ret.steps[i].inMiddle # <<>>
        /\ \E e \in 1..Len(ret.steps[i].inMiddle) :
              /\ ~ret.steps[i].alive[ret.steps[i].inMiddle[e].commandID + 1]
              /\ ret.steps[i].aliveBefore[ret.steps[i].inMiddle[e].commandID + 1]

\* The registry of the scenario: "save" and "saveall" at position 0 of two
\* commands, registered in either order after the constructor's command.
SaveScenario ==
    /\ m_Commands2 \in {<<cmdList, cmdSave, cmdSaveAll>>, <<cmdList, cmdSaveAll, cmdSave>>}
    /\ pc = "returned"
    /\ prev.input = <<"s", "a">>
    /\ arg.overwriteInput

\* C6 as stated: typing "sa" leaves the line "sa", not exhausted, with both
\* commands alive and no trailing space.
C6_SaStaysSa ==
    SaveScenario =>
        /\ arg.input = <<"s", "a">>
        /\ ~ret.steps[1].exhausted
        /\ ret.steps[1].alive[2] /\ ret.steps[1].alive[3]

\* C6 amended: typing "sa" yields the line "save", the prefix the two
\* candidates share, not exhausted, with both commands alive and no trailing space.
C6_SaBecomesSave ==
    SaveScenario =>
        /\ arg.input = w_save
        /\ ~ret.steps[1].exhausted
        /\ ret.steps[1].alive[2] /\ ret.steps[1].alive[3]

C6_Witness ==
    /\ SaveScenario
    /\ ret.kind = "return"
    /\ arg.input = w_save

-----------------------------------------------------------------------------
(* Console::submitCommand                                                  *)

\* A line of m_Output.
Echo(command)       == [kind |-> "echo", line |-> command]
ResultLine(message) == [kind |-> "result", message |-> message]
ListLine(text)      == [kind |-> "list", line |-> text]
NotFoundLine        == [kind |-> "notfound"]

RECURSIVE JoinBy(_, _)
\* The pieces with sep between them, as operator<< writes them.
JoinBy(ts, sep) == IF ts = <<>> THEN <<>>
                   ELSE IF Len(ts) = 1 THEN ts[1]
                   ELSE ts[1] \o sep \o JoinBy(Tail(ts), sep)

\* if ((command.find_first_not_of(' ') != npos)
\*     && (m_History.empty() || m_History.back() != command))
StoresLine(history, command) ==
    /\ HasNonSpace(command)
    /\ history = <<>> \/ history[Len(history)] # command

historyAfter(history, command) ==
    IF StoresLine(history, command) THEN Append(history, command) ELSE history

\* The line the "list" callback writes for one command: per fixed token the
\* first alias of every group, groups joined by "/", tokens by " ".
listText(command) ==
    LET shown == Min(command.numFixTokens, Len(command.generators))
    IN  JoinBy([i \in 1..shown |->
                  JoinBy([g \in 1..Len(command.generators[i]) |->
                             command.generators[i][g][1]], <<"/">>)],
               <<Space>>)

\* What a callback may do: return a string, or throw.  The callback of the
\* constructor's command is known; the others are the registrant's.
CallbackOutcomes ==
    {Returned("ok"), Thrown("out_of_range"), Thrown("invalid_argument"),
     Thrown("other")}

\* try { result = callback(args); } catch (out_of_range) ... catch
\* (invalid_argument) ...; outputAdd(result); return result;
dispatch_NoCatch(outcome, pushed) ==
    IF outcome.kind = "return"
        THEN [ret |-> outcome, out |-> <<ResultLine(outcome.value)>> \o pushed]
    ELSE [ret |-> outcome, out |-> pushed]
dispatch(outcome, pushed) ==
    IF outcome.kind = "return"
        THEN [ret |-> outcome, out |-> <<ResultLine(outcome.value)>> \o pushed]
    ELSE IF outcome.value = "out_of_range"
        THEN [ret |-> Returned("error: argument out of range"),
              out |-> <<ResultLine("error: argument out of range")>> \o pushed]
    ELSE IF outcome.value = "invalid_argument"
        THEN [ret |-> Returned("error: invalid argument"),
              out |-> <<ResultLine("error: invalid argument")>> \o pushed]
    ELSE [ret |-> outcome, out |-> pushed]

\* The callback registered by the constructor: one line per command.
listCallback(commands, pushed) ==
    [ret |-> Returned(""),
     out |-> <<ResultLine("")>>
             \o [i \in 1..Len(commands) |->
                    ListLine(listText(commands[Len(commands) + 1 - i]))]
             \o pushed]

\* Whether the legacy literal candidate matches the line up to a token end.
legacyMatches(candidate, line) ==
    /\ \/ Len(line) = Len(candidate)
       \/ Len(line) > Len(candidate) /\ line[Len(candidate) + 1] = Space
    /\ candidate = substr(line, Len(candidate))

RECURSIVE legacyFrom(_, _, _, _, _)
\* The loop of the old command system from index i on.
legacyFrom(literals, line, i, bestMatchSize, bestMatchIndex) ==
    IF i >= Len(literals) THEN bestMatchIndex
    ELSE LET candidate == literals[i + 1]
         IN  IF Len(candidate) < bestMatchSize
                 THEN legacyFrom(literals, line, i + 1, bestMatchSize, bestMatchIndex)
             ELSE IF legacyMatches(candidate, line)
                 THEN legacyFrom(literals, line, i + 1, Len(candidate), i)
             ELSE legacyFrom(literals, line, i + 1, bestMatchSize, bestMatchIndex)

legacyMatch(literals, line) == legacyFrom(literals, line, 0, 0, -1)

\* if (command.empty()) return "";
ReturnsEarly_Never(command) == FALSE
ReturnsEarly(command) == command = <<>>

\* if (commID != -1)
Resolved_Never(commID) == FALSE
Resolved(commID) == commID.value # -1

\* The callback a call invokes: of the new system, of the old one, or none.
Called(system, id) == [system |-> system, id |-> id]
NoneCalled == Called("none", -1)

\* What submitCommand returns and pushes to m_Output after it has dealt with
\* the history, and the callback it invokes; outcome is what that callback
\* does.
submitResult(commands, literals, command, outcome) ==
    IF ReturnsEarly(command)
        THEN [ret |-> Returned(""), out |-> <<>>, called |-> NoneCalled]
    ELSE LET pushed == <<Echo(command)>>
             args   == split(command, Space)
             commID == determineCommand(commands, args)
             bestMatchIndex == legacyMatch(literals, command)
         IN  IF commID.kind = "throw"
                 THEN [ret |-> commID, out |-> pushed, called |-> NoneCalled]
             ELSE IF Resolved(commID)
                 THEN (IF commID.value = 0 THEN listCallback(commands, pushed)
                       ELSE dispatch(outcome, pushed))
                      @@ [called |-> Called("new", commID.value)]
             ELSE IF bestMatchIndex >= 0
                 THEN dispatch(outcome, pushed)
                      @@ [called |-> Called("legacy", bestMatchIndex)]
             ELSE [ret |-> Returned("NOTFOUND"),
                   out |-> <<NotFoundLine>> \o pushed,
                   called |-> NoneCalled]

\* Whether the call reaches a callback whose behaviour is the registrant's.
reachesCallback(commands, literals, command) ==
    /\ command # <<>>
    /\ LET commID == determineCommand(commands, split(command, Space))
       IN  /\ commID.kind = "return"
           /\ commID.value # 0
           /\ commID.value # -1 \/ legacyMatch(literals, command) >= 0

OutcomesFor(commands, literals, command) ==
    IF reachesCallback(commands, literals, command) THEN CallbackOutcomes
    ELSE {Returned("ok")}

-----------------------------------------------------------------------------
(* Console::onKeyDown, Console::onTextInput and the registrations.         *)

\* if (historySize > m_HistoryIndex + 1)
CanGoOlder(historySize, historyIndex) == historySize > historyIndex + 1

\* if (m_HistoryIndex < 0) m_PendingLine = m_TypedLine;
SnapshotsPending_Always(historyIndex) == TRUE
SnapshotsPending(historyIndex) == historyIndex < 0

\* if (m_HistoryIndex >= 0)
CanGoNewer(historyIndex) == historyIndex >= 0

\* m_History.at(m_History.size() - m_HistoryIndex - 1)
historyAt(history, historyIndex) == history[Len(history) - historyIndex]

\* The run of UP and DOWN keys in progress: the line L it started from, the
\* number k of UP keys (counted up to one past the history's length) and the
\* number d of DOWN keys after them.
Run(L, k, d) == [kind |-> "run", L |-> L, k |-> k, d |-> d]

\* The state after the constructor.
Init ==
    /\ m_Commands2 = <<cmdList>>
    /\ ConsoleIdle
    /\ pc = "console"
    /\ arg = NoCall
    /\ ret = NoCall
    /\ prev = NoCall

KeyUp ==
    /\ pc = "console"
    /\ IF CanGoOlder(Len(m_History), m_HistoryIndex)
           THEN /\ m_PendingLine' = IF SnapshotsPending(m_HistoryIndex)
                                        THEN m_TypedLine ELSE m_PendingLine
                /\ m_HistoryIndex' = m_HistoryIndex + 1
                /\ m_TypedLine' = historyAt(m_History, m_HistoryIndex + 1)
       ELSE UNCHANGED <<m_PendingLine, m_HistoryIndex, m_TypedLine>>
    /\ nav' = IF nav.kind = "run" /\ nav.d = 0
                  THEN Run(nav.L, Min(nav.k + 1, Len(m_History) + 1), 0)
              ELSE IF m_HistoryIndex = -1 /\ m_History # <<>>
                  THEN Run(m_TypedLine, 1, 0)
              ELSE NoCall
    /\ m_Output' = <<>>
    /\ ret' = NoCall
    /\ UNCHANGED <<m_Commands2, m_Commands, m_History, pc, arg, prev>>

KeyDown ==
    /\ pc = "console"
    /\ IF CanGoNewer(m_HistoryIndex)
           THEN /\ m_HistoryIndex' = m_HistoryIndex - 1
                /\ m_TypedLine' = IF m_HistoryIndex - 1 < 0 THEN m_PendingLine
                                  ELSE historyAt(m_History, m_HistoryIndex - 1)
       ELSE UNCHANGED <<m_HistoryIndex, m_TypedLine>>
    /\ nav' = IF nav.kind = "run" /\ nav.d < Min(nav.k, Len(m_History))
                  THEN Run(nav.L, nav.k, nav.d + 1)
              ELSE NoCall
    /\ m_Output' = <<>>
    /\ ret' = NoCall
    /\ UNCHANGED <<m_Commands2, m_Commands, m_History, m_PendingLine, pc, arg, prev>>

KeyBackspace ==
    /\ pc = "console"
    /\ m_TypedLine' = IF Len(m_TypedLine) >= 1
                          THEN SubSeq(m_TypedLine, 1, Len(m_TypedLine) - 1)
                      ELSE m_TypedLine
    /\ nav' = NoCall
    /\ m_Output' = <<>>
    /\ ret' = NoCall
    /\ UNCHANGED <<m_Commands2, m_Commands, m_History, m_HistoryIndex,
                   m_PendingLine, pc, arg, prev>>

\* What every call of submitCommand does to the console.
Submits(command, outcome) ==
    LET r == submitResult(m_Commands2, m_Commands, command, outcome)
    IN  /\ Len(historyAfter(m_History, command)) <= MaxHist
        /\ m_History' = historyAfter(m_History, command)
        /\ m_HistoryIndex' = -1
        /\ m_PendingLine' = <<>>
        /\ m_Output' = r.out
        /\ ret' = r.ret
        /\ nav' = NoCall

\* submitCommand(m_TypedLine); m_TypedLine.clear();  An exception that leaves
\* submitCommand leaves the handler before the line is cleared.
KeyEnter ==
    /\ pc = "console"
    /\ \E outcome \in OutcomesFor(m_Commands2, m_Commands, m_TypedLine) :
          /\ Submits(m_TypedLine, outcome)
          /\ m_TypedLine' = IF ret'.kind = "throw" THEN m_TypedLine ELSE <<>>
    /\ UNCHANGED <<m_Commands2, m_Commands, pc, arg, prev>>

\* autoComplete(m_TypedLine, false, true, true): with limitToFixed false no
\* generator is read past the end.
KeyTab ==
    /\ pc = "console"
    /\ m_TypedLine' = autoComplete(m_Commands2, m_TypedLine, FALSE, TRUE, TRUE,
                                   [crash |-> TRUE, groups |-> <<>>]).input
    /\ nav' = NoCall
    /\ m_Output' = <<>>
    /\ ret' = NoCall
    /\ UNCHANGED <<m_Commands2, m_Commands, m_History, m_HistoryIndex,
                   m_PendingLine, pc, arg, prev>>

\* The texts of onTextInput and the lines of direct submitCommand calls.
TextPool   == {<<"l">>, <<Space>>}
SubmitPool == {<<>>, <<Space, Space, Space>>, <<Tab>>, w_list}

TextInput ==
    /\ pc = "console"
    /\ \E text \in TextPool :
          /\ Len(m_TypedLine) + Len(text) <= MaxLineLen
          /\ m_TypedLine' = m_TypedLine \o text
    /\ nav' = NoCall
    /\ m_Output' = <<>>
    /\ ret' = NoCall
    /\ UNCHANGED <<m_Commands2, m_Commands, m_History, m_HistoryIndex,
                   m_PendingLine, pc, arg, prev>>

SubmitCommand ==
    /\ pc = "console"
    /\ \E command \in SubmitPool :
          \E outcome \in OutcomesFor(m_Commands2, m_Commands, command) :
              Submits(command, outcome)
    /\ UNCHANGED <<m_Commands2, m_Commands, m_TypedLine, pc, arg, prev>>

Registered == Len(m_Commands2) - 1 + Len(m_Commands)

RegisterCommand ==
    /\ pc = "console"
    /\ Registered < MaxRegistered
    /\ \E command \in {<<"l">>} : m_Commands' = Append(m_Commands, command)
    /\ UNCHANGED <<m_Commands2, m_History, m_HistoryIndex, m_TypedLine,
                   m_PendingLine, m_Output, nav, callVars>>

RegisterCommand2 ==
    /\ pc = "console"
    /\ Registered < MaxRegistered
    /\ \E command \in {cmdLost, cmdBad} : m_Commands2' = Append(m_Commands2, command)
    /\ UNCHANGED <<consoleVars, callVars>>

Next ==
    \/ KeyUp
    \/ KeyDown
    \/ KeyBackspace
    \/ KeyEnter
    \/ KeyTab
    \/ TextInput
    \/ SubmitCommand
    \/ RegisterCommand
    \/ RegisterCommand2

Spec == Init /\ [][Next]_vars

-----------------------------------------------------------------------------
(* History and navigation: the claims about the console's state.           *)

\* C7: in every reachable state of the console, the freshly constructed one
\* included, the navigation index lies in [-1, length - 1], length being the
\* number of stored history entries.
C7_IndexInRange ==
    m_HistoryIndex \in (-1)..(Len(m_History) - 1)

WhitespaceOnly(line) == \A i \in 1..Len(line) : isspace(line[i])

\* C8: the history never holds a blank or whitespace-only line and never
\* holds two adjacent identical entries.
C8_HistoryClean ==
    /\ \A i \in 1..Len(m_History) : ~WhitespaceOnly(m_History[i])
    /\ \A i \in 1..(Len(m_History) - 1) : m_History[i] # m_History[i + 1]

\* older() is out of range at the oldest entry and with an empty history,
\* newer() when the console is not browsing: at index -1, and with an empty
\* history, where there is nothing to browse.
OlderOutOfRange ==
    m_History = <<>> \/ m_HistoryIndex = Len(m_History) - 1
NewerOutOfRange ==
    m_History = <<>> \/ m_HistoryIndex = -1

\* C9: out-of-range navigation is a no-op in every reachable state, the
\* freshly constructed console included: the UP key at the oldest entry or
\* with an empty history, and the DOWN key when not browsing, leave the edit
\* buffer, the navigation index, the pending buffer and the history unchanged.
C9_OutOfRangeNavigationIsNoOp ==
    [][ ((KeyUp /\ OlderOutOfRange) \/ (KeyDown /\ NewerOutOfRange))
            => UNCHANGED <<m_TypedLine, m_HistoryIndex, m_PendingLine, m_History>> ]_vars

\* C10: in a run of k >= 1 UP keys then d DOWN keys, begun not browsing with
\* the edit buffer L and n >= 1 history entries and without edits or submits
\* in between, the pending buffer holds L from the first UP key on; after the
\* UP keys the edit buffer shows the min(k,n)-th most recent entry; and after
\* min(k,n) DOWN keys the console is not browsing and the edit buffer is L.
C10_PendingRoundTrip ==
    (nav.kind = "run") =>
        LET n == Len(m_History)
            m == Min(nav.k, n)
        IN  /\ n >= 1
            /\ m_PendingLine = nav.L
            /\ (nav.d = 0) => /\ m_HistoryIndex = m - 1
                              /\ m_TypedLine = m_History[n - m + 1]
            /\ (nav.d = m) => /\ m_HistoryIndex = -1
                              /\ m_TypedLine = nav.L

\* C10's case: more UP keys than entries from a non-empty line that is no
\* history entry, then the DOWN keys that lead back to it.
C10_Witness ==
    /\ nav.kind = "run"
    /\ Len(m_History) >= 2
    /\ nav.k > Len(m_History)
    /\ nav.d = Len(m_History)
    /\ nav.L # <<>>
    /\ \A i \in 1..Len(m_History) : m_History[i] # nav.L
    /\ m_TypedLine = nav.L
    /\ m_HistoryIndex = -1

-----------------------------------------------------------------------------
(* Direct calls of submitCommand on a console fresh from its constructor   *)
(* and its registrations, for every registry, literal list and line.       *)

MaxLegacy == 2   \* legacy literals registered

LiteralPool == {<<"l">>, <<"l", "o">>, <<"l", Space, "l">>}

SubmitRegistries ==
    {<<cmdList>>, <<cmdList, cmdLost>>, <<cmdList, cmdBad>>, <<cmdList, cmdZero>>}

SubmitLines ==
    {<<>>, <<Space>>, <<"l">>, <<"l", "o">>, <<"l", "l">>, <<"l", Space, "l">>,
     <<"l", Space, "l", Space, "x">>, <<"l", "o", Space, "x">>, w_list,
     w_lost \o <<Space>> \o w_Game, w_save \o <<Space, "t">>,
     <<"l">> \o w_list}

InitSubmit ==
    /\ m_Commands2 \in SubmitRegistries
    /\ m_Commands \in SeqsUpTo(LiteralPool, MaxLegacy)
    /\ m_History = <<>>
    /\ m_HistoryIndex = 0
    /\ m_TypedLine = <<>>
    /\ m_PendingLine = <<>>
    /\ m_Output = <<>>
    /\ nav = NoCall
    /\ pc = "ready"
    /\ arg \in {[command |-> c] : c \in SubmitLines}
    /\ ret = NoCall
    /\ prev = NoCall

\* A call, and a second one of the same line; prev keeps what the call met: the history before it, the
\* callback it invoked and what that callback did.
CallSubmitCommand ==
    /\ pc \in {"ready", "returned"}
    /\ \E outcome \in OutcomesFor(m_Commands2, m_Commands, arg.command) :
          /\ Submits(arg.command, outcome)
          /\ prev' = [history |-> m_History,
                      outcome |-> outcome,
                      called  |-> submitResult(m_Commands2, m_Commands,
                                               arg.command, outcome).called]
    /\ pc' = IF pc = "ready" THEN "returned" ELSE "again"
    /\ UNCHANGED <<m_Commands2, m_Commands, m_TypedLine, arg>>

NextSubmit == CallSubmitCommand

SpecSubmit == InitSubmit /\ [][NextSubmit]_vars

-----------------------------------------------------------------------------
(* Dispatch: the claims about submitCommand.                               *)

\* The legacy literals that are a prefix of the line ending on a token
\* boundary: the line ends there or goes on with a space.
LegacyCandidates(literals, line) ==
    {i \in 0..(Len(literals) - 1) :
        /\ IsPrefix(literals[i + 1], line)
        /\ \/ Len(literals[i + 1]) = Len(line)
           \/ line[Len(literals[i + 1]) + 1] = Space}

LongestCandidates(literals, line) ==
    {i \in LegacyCandidates(literals, line) :
        \A j \in LegacyCandidates(literals, line) :
            Len(literals[j + 1]) <= Len(literals[i + 1])}

ResolveFailed == determineCommand(m_Commands2, split(arg.command, Space)) = NotFound

\* C11: when resolution fails and some legacy literal is a prefix of the line
\* ending on a token boundary, the callback invoked is that of the longest
\* such literal, and of the earliest registered of several equally long.
C11_LongestEarliestLegacy ==
    (/\ pc # "ready"
     /\ arg.command # <<>>
     /\ ResolveFailed
     /\ LegacyCandidates(m_Commands, arg.command) # {})
    => prev.called = Called("legacy", Least(LongestCandidates(m_Commands, arg.command)))

\* C12: on a non-empty line at most one callback is invoked: the resolved
\* command's when determineCommand returns an id, a legacy one only when it
\* returned NotFound; and when both paths fail none is invoked, the result is
\* the NotFound sentinel and a "command not found" line is the newest output.
C12_DispatchOrder ==
    (pc # "ready" /\ arg.command # <<>>) =>
        LET commID == determineCommand(m_Commands2, split(arg.command, Space))
        IN  /\ (commID.kind = "return" /\ commID.value # -1)
                   => prev.called = Called("new", commID.value)
            /\ (prev.called.system = "legacy") => commID = NotFound
            /\ (commID = NotFound /\ LegacyCandidates(m_Commands, arg.command) = {})
                   => /\ prev.called = NoneCalled
                      /\ ret = Returned("NOTFOUND")
                      /\ m_Output = <<NotFoundLine, Echo(arg.command)>>

\* C12's case: the line resolves in the new system while a legacy literal
\* matches it as well.
C12_Witness ==
    /\ pc # "ready"
    /\ prev.called.system = "new"
    /\ LegacyCandidates(m_Commands, arg.command) # {}

\* The history a submit of the line leaves, whatever else the call does.
HistoryAfterSubmit(history, command) ==
    IF /\ \E i \in 1..Len(command) : command[i] # Space
       /\ history = <<>> \/ history[Len(history)] # command
        THEN history \o <<command>>
    ELSE history

CaughtMessage(kind) ==
    IF kind = "out_of_range" THEN "error: argument out of range"
    ELSE "error: invalid argument"

\* C13: when the callback invoked on either path throws std::out_of_range or
\* std::invalid_argument, nothing leaves submitCommand: it returns the fixed
\* message of that kind, the message is the newest output line, and history,
\* index and pending line are as after any submit.
C13_CallbackFailureCaught ==
    (/\ pc # "ready"
     /\ prev.called.system \in {"new", "legacy"}
     /\ prev.outcome.kind = "throw"
     /\ prev.outcome.value \in {"out_of_range", "invalid_argument"})
    => /\ ret = Returned(CaughtMessage(prev.outcome.value))
       /\ m_Output = <<ResultLine(CaughtMessage(prev.outcome.value)), Echo(arg.command)>>
       /\ m_History = HistoryAfterSubmit(prev.history, arg.command)
       /\ m_HistoryIndex = -1
       /\ m_PendingLine = <<>>

\* C13's case: a legacy callback threw std::out_of_range on the second
\* submit of a line.
C13_Witness ==
    /\ pc = "again"
    /\ prev.called.system = "legacy"
    /\ prev.outcome = Thrown("out_of_range")
    /\ ret = Returned("error: argument out of range")
    /\ m_History = <<arg.command>>

\* C14: whatever is registered, a command with more fixed tokens than
\* generators included, determineCommand returns an id or NotFound on the
\* tokens of a submitted line, and no error leaves submitCommand unless a
\* callback raised it.
C14_ResolveAndSubmitNeverFail ==
    (pc # "ready" /\ arg.command # <<>>) =>
        /\ determineCommand(m_Commands2, split(arg.command, Space)).kind = "return"
        /\ (prev.called = NoneCalled) => ret.kind = "return"

-----------------------------------------------------------------------------
(* Completion: the rewriting rule, the reassembly and the alive set.       *)

\* The typed token occurs in the alias at the 0-based position p, up to case.
Occurs(alias, typed, p) ==
    /\ p + Len(typed) <= Len(alias)
    /\ SubSeq(lower(alias), p + 1, p + Len(typed)) = lower(typed)

Found(alias, typed) == \E p \in 0..Len(alias) : Occurs(alias, typed, p)

FirstPosition(alias, typed) ==
    CHOOSE p \in 0..Len(alias) :
        Occurs(alias, typed, p) /\ \A q \in 0..(p - 1) : ~Occurs(alias, typed, q)

\* Alias a has a smaller (matchPosition, lengthGap) than alias b.
MatchesBetter(a, b, typed) ==
    /\ Found(a, typed)
    /\ \/ ~Found(b, typed)
       \/ FirstPosition(a, typed) < FirstPosition(b, typed)
       \/ /\ FirstPosition(a, typed) = FirstPosition(b, typed)
          /\ Len(a) < Len(b)

\* The bucket entry stands for a group the command really has at the position
\* and is an alias of that group that no other alias of it beats.
BestOfItsGroup(entry, tokenID, typed) ==
    LET command == m_Commands2[entry.commandID + 1]
        group   == command.generators[tokenID + 1][entry.groupID + 1]
    IN  /\ \E a \in 1..Len(group) : group[a] = entry.candidate
        /\ \A a \in 1..Len(group) : ~MatchesBetter(group[a], entry.candidate, typed)

\* Entries in command-registration order, and in group order within a command.
InRegistrationOrder(bucket) ==
    \A e, f \in 1..Len(bucket) :
        (e < f) => \/ bucket[e].commandID < bucket[f].commandID
                   \/ /\ bucket[e].commandID = bucket[f].commandID
                      /\ bucket[e].groupID < bucket[f].groupID

\* The number of leading characters all candidates of the bucket share.
SharedLength(bucket) ==
    CHOOSE n \in 0..Len(bucket[1].candidate) :
        SharedBy(bucket, n) /\ ~SharedBy(bucket, n + 1)

\* C15: where the selected bucket is non-empty, its entries are in
\* registration then group order, each the best alias of its group; with
\* commonLength > 0 the new token is the first entry's candidate, in its own
\* case, cut to commonLength, and exhausted says that the longest candidate
\* has that length; a bucket of one group gives that group's best alias in
\* full, exhausted; and "lo" with the one group ["load","ld"] gives "load ".
C15_RewritingRule ==
    /\ \A i \in DoneSteps :
          LET step   == ret.steps[i]
              bucket == step.bucket
          IN  (bucket # <<>>) =>
                /\ InRegistrationOrder(bucket)
                /\ \A e \in 1..Len(bucket) :
                      (i - 1 < Len(m_Commands2[bucket[e].commandID + 1].generators))
                          => BestOfItsGroup(bucket[e], i - 1, step.typed)
                /\ (SharedLength(bucket) > 0) =>
                      /\ step.token = SubSeq(bucket[1].candidate, 1, SharedLength(bucket))
                      /\ step.exhausted <=>
                            (\A e \in 1..Len(bucket) :
                                Len(bucket[e].candidate) <= SharedLength(bucket))
                /\ (Len(bucket) = 1) =>
                      /\ step.token = bucket[1].candidate
                      /\ step.exhausted
    /\ (/\ pc = "returned"
        /\ ret.kind = "return"
        /\ arg.overwriteInput
        /\ prev.input = <<"l", "o">>
        /\ Len(ret.steps[1].bucket) = 1
        /\ ret.steps[1].bucket[1].candidate = w_load)
       => arg.input = w_load \o <<Space>>

\* C15's case: "lo" typed where only the group ["load","ld"] matches.
C15_Witness ==
    /\ pc = "returned"
    /\ ret.kind = "return"
    /\ prev.input = <<"l", "o">>
    /\ Len(ret.steps[1].bucket) = 1
    /\ ret.steps[1].bucket[1].candidate = w_load
    /\ ret.steps[1].exhausted
    /\ arg.input = w_load \o <<Space>>

\* The tokens the latest call left, in order.
LeftTokens == [i \in 1..Len(ret.steps) |-> ret.steps[i].token]

EndsInWhitespace(line) == line # <<>> /\ line[Len(line)] \in {Space, Tab}

\* C16: a rewriting call on a line with at least one token leaves the tokens
\* joined by one space each, followed by one space exactly when the line
\* ended in whitespace or the last token is exhausted; blanks before and
\* between the tokens are not kept.
C16_Reassembly ==
    (/\ pc # "ready"
     /\ ret.kind = "return"
     /\ arg.overwriteInput
     /\ ret.steps # <<>>)
    => arg.input = Join(LeftTokens)
                   \o (IF \/ EndsInWhitespace(prev.input)
                          \/ ret.steps[Len(ret.steps)].exhausted
                           THEN <<Space>> ELSE <<>>)

\* C16's case: two tokens typed with blanks before and between them and a
\* tab after them, the last one not exhausted.
C16_Witness ==
    /\ pc = "returned"
    /\ ret.kind = "return"
    /\ arg.overwriteInput
    /\ Len(ret.steps) = 2
    /\ prev.input[1] = Space
    /\ prev.input[Len(prev.input)] = Tab
    /\ ~ret.steps[2].exhausted
    /\ ret.steps[1].token # ret.steps[1].typed
    /\ arg.input = ret.steps[1].token \o <<Space>> \o ret.steps[2].token \o <<Space>>

\* What a call does to the line: how it ended, the line it left, and per pass
\* the token, its exhausted flag and the alive set after it.
Effect(r) ==
    [kind  |-> r.kind,
     input |-> r.input,
     steps |-> [i \in 1..Len(r.steps) |->
                   IF r.steps[i].crashed THEN <<"crashed">>
                   ELSE <<r.steps[i].token, r.steps[i].exhausted, r.steps[i].alive>>]]

\* C17: a call that emits suggestions does to the line what the call with
\* the same arguments that emits none does (on the same outcome of any
\* undefined read): same line, same exhausted flags, same alive sets.
C17_SuggestionsChangeNothing ==
    (pc # "ready" /\ arg.showSuggestions) =>
        \E junk \in JunkFor(m_Commands2, arg.limitToFixed) :
            Effect(ret) = Effect(autoComplete(m_Commands2, prev.input, arg.limitToFixed,
                                              FALSE, arg.overwriteInput, junk))

\* C17's case: suggestions were emitted for a bucket whose sorted order puts
\* another entry first.
C17_Witness ==
    /\ pc = "returned"
    /\ arg.showSuggestions
    /\ arg.overwriteInput
    /\ ret.kind = "return"
    /\ ret.steps # <<>>
    /\ Len(ret.steps[1].bucket) >= 2
    /\ ret.steps[1].log # <<>>
    /\ SortSeq(ret.steps[1].bucket, compare)[1] # ret.steps[1].bucket[1]
    /\ ret.steps[1].token = SubSeq(ret.steps[1].bucket[1].candidate, 1,
                                   Len(ret.steps[1].token))

\* C18: submitting the empty line returns the empty string, adds no history
\* entry, invokes no callback and pushes no output line, not even the
\* "command not found" one.
C18_EmptyLineDoesNothing ==
    (pc # "ready" /\ arg.command = <<>>) =>
        /\ ret = Returned("")
        /\ m_History = prev.history
        /\ prev.called = NoneCalled
        /\ m_Output = <<>>

\* C18's case: the empty line submitted where a command without fixed tokens,
\* which resolution returns for the empty token sequence, is registered.
C18_Witness ==
    /\ pc = "returned"
    /\ arg.command = <<>>
    /\ ret = Returned("")
    /\ determineCommand(m_Commands2, <<>>) = Returned(1)

\* The entries of both buckets of a pass.
Contributors(step) == step.startsWith \o step.inMiddle

\* C19: the alive set only narrows: a command alive after a pass was alive
\* before it, each pass starts from what the one before left, and the
\* candidates of a pass come from commands alive after every earlier pass;
\* and from a pass on in which both buckets are empty, every token is left as
\* typed and not exhausted.
C19_AliveOnlyNarrows ==
    \A i \in DoneSteps :
        LET step == ret.steps[i]
        IN  /\ \A c \in 1..Len(m_Commands2) : step.alive[c] => step.aliveBefore[c]
            /\ (i > 1) => step.aliveBefore = ret.steps[i - 1].alive
            /\ \A j \in DoneSteps :
                  (i < j) => \A e \in 1..Len(Contributors(ret.steps[j])) :
                                step.alive[Contributors(ret.steps[j])[e].commandID + 1]
            /\ (Contributors(step) = <<>>) =>
                  \A j \in DoneSteps :
                      (i <= j) => /\ ret.steps[j].token = ret.steps[j].typed
                                  /\ ~ret.steps[j].exhausted

\* C19's case: nothing matches the first token, and the second token, which
\* an alias at its position starts with, is left as typed.
C19_Witness ==
    /\ pc = "returned"
    /\ ret.kind = "return"
    /\ Len(ret.steps) = 2
    /\ Contributors(ret.steps[1]) = <<>>
    /\ ret.steps[2].typed = <<"g">>
    /\ \E c \in 1..Len(m_Commands2) : m_Commands2[c] = cmdLoad
    /\ ret.steps[2].token = <<"g">>
    /\ \A c \in 1..Len(m_Commands2) : ~ret.steps[2].alive[c]

\* C20: when a rewriting call limited to the fixed tokens marks every token
\* exhausted and leaves alive a command with as many fixed tokens as the line
\* has tokens, determineCommand returns a command id on the tokens of the
\* rewritten line (stated for the registries on which every read is defined).
C20_CompletionResolves ==
    (/\ pc # "ready"
     /\ WellFormed
     /\ arg.limitToFixed
     /\ arg.overwriteInput
     /\ ret.kind = "return"
     /\ ret.steps # <<>>
     /\ \A i \in 1..Len(ret.steps) : ret.steps[i].exhausted
     /\ \E c \in 1..Len(m_Commands2) :
           /\ ret.steps[Len(ret.steps)].alive[c]
           /\ m_Commands2[c].numFixTokens = Len(ret.steps))
    => LET commID == determineCommand(m_Commands2, LeftTokens)
       IN  commID.kind = "return" /\ commID.value # -1

=============================================================================
